---- MODULE Spec2Model ----
(***************************************************************************)
(* distance_compare_avx2_f16 (src/vector/distance.c): squared L2 distance  *)
(* of two vectors of IEEE-754 binary16 elements held in byte buffers.      *)
(*                                                                         *)
(* binary32 values are records [k, m, e]:                                  *)
(*   k = "fin": the real number m * 2^e, m odd or (m = 0 and e = 0);       *)
(*   k = "inf": +infinity (m = 1) or -infinity (m = -1);                   *)
(*   k = "nan": a NaN.                                                     *)
(* The two zeros are one value (they compare equal in C), and so are all   *)
(* NaNs.  Arithmetic rounds to nearest, ties to even, 24 significant bits, *)
(* least exponent -149, as the SSE/AVX instructions do under the default   *)
(* MXCSR.                                                                  *)
(***************************************************************************)
EXTENDS Integers, Sequences, FiniteSets, TLC

\* ------------------------------------------------------------------ bounds
MaxGroups == 2
MaxTail == 3
SizeBits == 6
MaxIters == 3

\* ------------------------------------------------------- program constants
GroupWidth == 8

\* ------------------------------------------------------- binary32 numbers
RECURSIVE Pow2(_)
Pow2(n) == IF n <= 0 THEN 1 ELSE 2 * Pow2(n - 1)

RECURSIVE BitLen(_)
BitLen(a) == IF a <= 0 THEN 0 ELSE 1 + BitLen(a \div 2)

Abs(x) == IF x < 0 THEN -x ELSE x
Sgn(x) == IF x < 0 THEN -1 ELSE 1
Max2(a, b) == IF a >= b THEN a ELSE b

Half24 == Pow2(24)

NaN == [k |-> "nan", m |-> 0, e |-> 0]
Inf(s) == [k |-> "inf", m |-> s, e |-> 0]
Zero == [k |-> "fin", m |-> 0, e |-> 0]

\* m * 2^e with the factors of two moved from m into e; overflow gives infinity
RECURSIVE Norm(_, _)
Norm(m, e) ==
  IF m = 0 THEN Zero
  ELSE IF m % 2 = 0 THEN Norm(m \div 2, e + 1)
  ELSE IF BitLen(Abs(m)) + e > 128 THEN Inf(Sgn(m))
  ELSE [k |-> "fin", m |-> m, e |-> e]

\* q, bumped by one when the dropped part is above half, or is half and q is odd
NearestEven(q, above, tie) == IF above \/ (tie /\ q % 2 = 1) THEN q + 1 ELSE q

\* the binary32 nearest to m * 2^e
RoundInt(m, e) ==
  LET a == Abs(m)
      b == BitLen(a)
      d == Max2(Max2(b - 24, -149 - e), 0)
  IN IF d = 0 THEN Norm(m, e)
     ELSE IF d > b THEN Zero
     ELSE LET q == a \div Pow2(d)
              r == a % Pow2(d)
              h == Pow2(d - 1)
          IN Norm(Sgn(m) * NearestEven(q, r > h, r = h), e + d)

\* the binary32 nearest to s * (H * 2^24 + L) * 2^e, 0 <= L < 2^24, H >= 0
RoundPair(s, H, L, e) ==
  IF H = 0 THEN RoundInt(s * L, e)
  ELSE LET bh == BitLen(H)
           d == Max2(bh, -149 - e)
       IN IF d <= 24
          THEN LET q == H * Pow2(24 - d) + (L \div Pow2(d))
                   r == L % Pow2(d)
                   h == Pow2(d - 1)
               IN Norm(s * NearestEven(q, r > h, r = h), e + d)
          ELSE IF d > 24 + bh THEN Zero
          ELSE LET q == H \div Pow2(d - 24)
                   r == H % Pow2(d - 24)
                   h == Pow2(d - 25)
               IN Norm(s * NearestEven(q, r > h \/ (r = h /\ L > 0), r = h /\ L = 0),
                       e + d)

\* x + y for finite x, y with x.e >= y.e
AddOrdered(x, y) ==
  LET gap == x.e - y.e
      bx == BitLen(Abs(x.m))
      by == BitLen(Abs(y.m))
  IN IF y.m = 0 THEN x
     ELSE IF x.m = 0 THEN y
     ELSE IF gap >= by - bx + 26 THEN x
     ELSE IF bx + gap <= 24 THEN RoundInt(x.m * Pow2(gap) + y.m, y.e)
     ELSE LET a == Abs(x.m)
              H == IF gap >= 24 THEN a * Pow2(gap - 24) ELSE a \div Pow2(24 - gap)
              L == IF gap >= 24 THEN 0 ELSE (a % Pow2(24 - gap)) * Pow2(gap)
              L2 == L + Sgn(x.m) * y.m
          IN RoundPair(Sgn(x.m), H + (L2 \div Half24), L2 % Half24, y.e)

\* _mm256_add_ps / _mm_add_ps / the scalar + on float, one lane
FAdd(x, y) ==
  IF x.k = "nan" \/ y.k = "nan" THEN NaN
  ELSE IF x.k = "inf" /\ y.k = "inf" THEN (IF x.m = y.m THEN x ELSE NaN)
  ELSE IF x.k = "inf" THEN x
  ELSE IF y.k = "inf" THEN y
  ELSE IF x.e >= y.e THEN AddOrdered(x, y) ELSE AddOrdered(y, x)

FNeg(x) == [x EXCEPT !.m = -x.m]

\* _mm256_sub_ps, and the scalar - on float, one lane
FSub(x, y) == FAdd(x, FNeg(y))

\* _mm256_mul_ps, and the scalar * on float, one lane
FMul(x, y) ==
  IF x.k = "nan" \/ y.k = "nan" THEN NaN
  ELSE IF x.k = "inf" \/ y.k = "inf"
       THEN (IF x.m = 0 \/ y.m = 0 THEN NaN ELSE Inf(Sgn(x.m) * Sgn(y.m)))
  ELSE LET a == Abs(x.m)
           b == Abs(y.m)
           s == Sgn(x.m) * Sgn(y.m)
       IN IF BitLen(a) + BitLen(b) <= 30 THEN RoundInt(x.m * y.m, x.e + y.e)
          ELSE LET ah == a \div 4096
                   al == a % 4096
                   bh == b \div 4096
                   bl == b % 4096
                   cross == ah * bl + al * bh
                   L0 == al * bl + (cross % 4096) * 4096
               IN RoundPair(s, ah * bh + (cross \div 4096) + (L0 \div Half24),
                            L0 % Half24, x.e + y.e)

\* ------------------------------------------------------------ conversions
\* size_t arithmetic is modulo 2^SizeBits
WordMod == Pow2(SizeBits)

\* _mm256_cvtph_ps, one lane: the binary16 pattern h (0..65535) widened
HalfToFloat(h) ==
  LET s == IF h >= 32768 THEN -1 ELSE 1
      ex == (h \div 1024) % 32
      mt == h % 1024
  IN IF ex = 31 THEN (IF mt = 0 THEN Inf(s) ELSE NaN)
     ELSE IF ex = 0 THEN Norm(s * mt, -24)
     ELSE Norm(s * (1024 + mt), ex - 25)

\* the union { uint16_t in; float out; } read through .out after a store to .in
\* (little-endian): lo are the two bytes stored, hi the two bytes never written
BitsToFloat(hi, lo) ==
  LET s == IF hi >= 32768 THEN -1 ELSE 1
      ex == (hi \div 128) % 256
      mt == (hi % 128) * 65536 + lo
  IN IF ex = 255 THEN (IF mt = 0 THEN Inf(s) ELSE NaN)
     ELSE IF ex = 0 THEN Norm(s * mt, -149)
     ELSE Norm(s * (8388608 + mt), ex - 150)

\* byte offset of the group loaded at element index i: vec + i * 2
GroupOffset(i) == (i * 2) % WordMod

\* the two byte offsets of lane l (0..7) of the 128-bit load at byte offset off
LaneBytes(off, l) == {off + 2 * l, off + 2 * l + 1}

\* a load touches memory past the end of the buffer
OutOfBounds(vec, offs) == \E o \in offs : o >= Len(vec)

\* lane l of _mm_loadu_si128(vec + off) as a 16-bit pattern; a lane outside
\* the buffer holds whatever lies behind it in memory (g)
LoadLane(vec, off, l, g) ==
  IF OutOfBounds(vec, LaneBytes(off, l)) THEN g
  ELSE vec[off + 2 * l + 1] + 256 * vec[off + 2 * l + 2]

\* (vec[i] << 8) | vec[i + 1], as uint16_t
PackBytes(vec, i) == (vec[i + 1] * 256 + vec[i + 2]) % 65536

\* the byte offsets the remainder loop reads for index i
RemBytes(i) == {i, i + 1}

\* a loop test that forgets the group's width
LoopCondNoMargin(i, size) == i < size

\* a loop test that cannot wrap
LoopCondChecked(i, size) == i + GroupWidth <= size

\* i <= size - 8 on size_t
LoopCond(i, size) == i <= (size - GroupWidth) % WordMod

\* i < size
RemCond(i, size) == i < size

\* lines 19-23, all eight lanes
Accumulate(acc, a, b) ==
  [l \in 1..8 |-> LET diff == FSub(a[l], b[l]) IN FAdd(acc[l], FMul(diff, diff))]

\* lines 41-42: _mm256_set1_ps(diff * diff) added to every lane
Broadcast(acc, fv1, fv2) ==
  LET diff == FSub(fv1, fv2) IN [l \in 1..8 |-> FAdd(acc[l], FMul(diff, diff))]

\* a reduction that forgets the high half of the accumulator
HorizontalSumLowOnly(acc) == FAdd(FAdd(FAdd(acc[1], acc[2]), acc[3]), acc[4])

\* lines 46-52: fold the high half onto the low half, then add the four lanes
HorizontalSum(acc) ==
  LET low == [l \in 1..4 |-> FAdd(acc[l], acc[l + 4])]
  IN FAdd(FAdd(FAdd(low[1], low[2]), low[3]), low[4])

\* ------------------------------------------------------------------ inputs
\* binary16 patterns of 1.0, 2.0, ..., 8.0
RampPatterns == <<15360, 16384, 16896, 17408, 17664, 17920, 18176, 18432>>

\* binary16 patterns of 0.0, 9.0 and +infinity
AltPatterns == {0, 18560, 31744}

\* what a 16-bit lane read past the end of a buffer may hold: 0.0, +infinity
OobPatterns == {0, 31744}

\* what the two unwritten bytes of the union may hold: zero (a zero-extending
\* register move), the upper half of 1.0f, the upper half of a NaN
GarbageHi == {0, 16256, 32704}

Ramp(n) == [j \in 1..n |-> RampPatterns[((j - 1) % 8) + 1]]

\* the ramp read backwards: 8.0, 7.0, ..., 1.0
Descent(n) == [j \in 1..n |-> RampPatterns[8 - ((j - 1) % 8)]]

Vectors(n) ==
  {Ramp(n)} \cup {[Ramp(n) EXCEPT ![p] = a] : p \in 1..n, a \in AltPatterns}

\* the little-endian byte buffer of a sequence of 16-bit patterns
ToBytes(el) ==
  [b \in 1..(2 * Len(el)) |->
     IF b % 2 = 1 THEN el[(b + 1) \div 2] % 256 ELSE el[b \div 2] \div 256]

NoResult == [k |-> "none", m |-> 0, e |-> 0]
ZeroLanes == [l \in 1..8 |-> Zero]

\* ------------------------------------------------------------------- state
VARIABLES
  vec1, vec2, size,    \* the arguments of the call in progress
  alias,               \* vec1 and vec2 are the same pointer
  i, sum_squared_diff, \* the locals
  pc,                  \* "vec": line 15, "rem": line 26, "done", "fault"
  result,              \* the value returned
  call, first,         \* 1 or 2: the call in progress; the first call's result
  reads,               \* the element accesses made so far in this call
  revisited,           \* the element indices accessed more than once
  iters                \* iterations of the vectorized loop in this call

vars == <<vec1, vec2, size, alias, i, sum_squared_diff, pc, result, call, first,
          reads, revisited, iters>>

Visited == {r.idx : r \in reads}

\* every size below one group, and MaxGroups groups at most with a tail
Sizes ==
  (0..(GroupWidth - 1)) \cup
  {GroupWidth * g + r : g \in 1..MaxGroups, r \in 0..MaxTail}

\* vec1 holds the ramp or the descent, and vec2 the ramp with at most one
\* element replaced; or both arguments are one buffer of the latter kind
Init ==
  /\ size \in Sizes
  /\ alias \in BOOLEAN
  /\ \E a \in {Ramp(size), Descent(size)}, b \in Vectors(size) :
       /\ vec1 = IF alias THEN ToBytes(b) ELSE ToBytes(a)
       /\ vec2 = ToBytes(b)
  /\ i = 0
  /\ sum_squared_diff = ZeroLanes
  /\ pc = "vec"
  /\ result = NoResult
  /\ call = 1
  /\ first = NoResult
  /\ reads = {}
  /\ revisited = {}
  /\ iters = 0

GroupReads(k) ==
  {[ph |-> "vec", idx |-> k + l, offs |-> LaneBytes(GroupOffset(k), l)] : l \in 0..7}

\* one iteration of the vectorized loop, lines 15-24
VecIter ==
  /\ pc = "vec"
  /\ LoopCond(i, size)
  /\ iters < MaxIters
  /\ \E g1 \in OobPatterns, g2 \in OobPatterns :
       /\ alias => g1 = g2
       /\ LET off == GroupOffset(i)
              a == [l \in 1..8 |-> HalfToFloat(LoadLane(vec1, off, l - 1, g1))]
              b == [l \in 1..8 |-> HalfToFloat(LoadLane(vec2, off, l - 1, g2))]
          IN sum_squared_diff' = Accumulate(sum_squared_diff, a, b)
  /\ reads' = reads \cup GroupReads(i)
  /\ revisited' = revisited \cup {k \in Visited : k \in i..(i + 7)}
  /\ iters' = iters + 1
  /\ i' = (i + GroupWidth) % WordMod
  /\ UNCHANGED <<vec1, vec2, size, alias, pc, result, call, first>>

\* a 128-bit load past the end of a buffer hits an unmapped page
VecFault ==
  /\ pc = "vec"
  /\ LoopCond(i, size)
  /\ \E l \in 0..7 :
       \/ OutOfBounds(vec1, LaneBytes(GroupOffset(i), l))
       \/ OutOfBounds(vec2, LaneBytes(GroupOffset(i), l))
  /\ pc' = "fault"
  /\ UNCHANGED <<vec1, vec2, size, alias, i, sum_squared_diff, result, call, first,
                 reads, revisited, iters>>

\* the vectorized loop's test fails: on to line 26
VecExit ==
  /\ pc = "vec"
  /\ ~LoopCond(i, size)
  /\ pc' = "rem"
  /\ UNCHANGED <<vec1, vec2, size, alias, i, sum_squared_diff, result, call, first,
                 reads, revisited, iters>>

\* one iteration of the remainder loop, lines 26-44: the body's i++ and the
\* loop's i++
RemIter ==
  /\ pc = "rem"
  /\ RemCond(i, size)
  /\ \E h1 \in GarbageHi, h2 \in GarbageHi :
       sum_squared_diff' = Broadcast(sum_squared_diff,
                                     BitsToFloat(h1, PackBytes(vec1, i)),
                                     BitsToFloat(h2, PackBytes(vec2, i)))
  /\ reads' = reads \cup {[ph |-> "rem", idx |-> i, offs |-> RemBytes(i)]}
  /\ revisited' = revisited \cup ({i} \cap Visited)
  /\ i' = (i + 2) % WordMod
  /\ UNCHANGED <<vec1, vec2, size, alias, pc, result, call, first, iters>>

\* lines 46-52
Reduce ==
  /\ pc = "rem"
  /\ ~RemCond(i, size)
  /\ result' = HorizontalSum(sum_squared_diff)
  /\ pc' = "done"
  /\ UNCHANGED <<vec1, vec2, size, alias, i, sum_squared_diff, call, first, reads,
                 revisited, iters>>

\* the caller calls again with the two buffers exchanged
SwapCall ==
  /\ pc = "done"
  /\ call = 1
  /\ call' = 2
  /\ first' = result
  /\ vec1' = vec2
  /\ vec2' = vec1
  /\ i' = 0
  /\ sum_squared_diff' = ZeroLanes
  /\ pc' = "vec"
  /\ result' = NoResult
  /\ reads' = {}
  /\ revisited' = {}
  /\ iters' = 0
  /\ UNCHANGED <<size, alias>>

Next == VecIter \/ VecFault \/ VecExit \/ RemIter \/ Reduce \/ SwapCall

Spec == Init /\ [][Next]_vars

\* ------------------------------------------------------- reference values
\* element k (from 0) of a buffer: the 16-bit pattern at byte offsets 2k, 2k+1
Elem(vec, k) == vec[2 * k + 1] + 256 * vec[2 * k + 2]

\* (decode(a[k]) - decode(b[k]))^2
SqDiff(a, b, k) ==
  LET d == FSub(HalfToFloat(Elem(a, k)), HalfToFloat(Elem(b, k))) IN FMul(d, d)

\* the sum of SqDiff over the indices of S below n, in increasing order
RECURSIVE SumBelow(_, _, _, _)
SumBelow(a, b, S, n) ==
  IF n = 0 THEN Zero
  ELSE IF (n - 1) \in S THEN FAdd(SumBelow(a, b, S, n - 1), SqDiff(a, b, n - 1))
  ELSE SumBelow(a, b, S, n - 1)

BruteForce(a, b, n) == SumBelow(a, b, 0..(n - 1), n)

Returned == pc = "done"
HasTail == size >= GroupWidth /\ size % GroupWidth # 0
InBuffer(offs) == offs \subseteq 0..(2 * size - 1)

\* ------------------------------------------------------------------ claims
\* C1: for a size that is a positive multiple of 8 the value returned is the
\* brute-force sum of the squared decoded differences of all size elements;
\* the ramp 1..8 against 1..7,9 gives 1.
C1_MultipleOfEight ==
  /\ (Returned /\ size > 0 /\ size % GroupWidth = 0)
       => result = BruteForce(vec1, vec2, size)
  /\ (Returned /\ vec1 = ToBytes(Ramp(8))
        /\ vec2 = ToBytes([Ramp(8) EXCEPT ![8] = 18560]))
       => result = Norm(1, 0)

C1_Witness ==
  /\ Returned
  /\ call = 1
  /\ vec1 = ToBytes(Ramp(8))
  /\ vec2 = ToBytes([Ramp(8) EXCEPT ![8] = 18560])
  /\ result = Norm(1, 0)

\* C2: for a size of at least 8 that is no multiple of 8, the two loops
\* together visit every index below size exactly once.
C2_EveryIndexOnce ==
  (Returned /\ HasTail) => (Visited = 0..(size - 1) /\ revisited = {})

\* C3: for a size 8k + r, k >= 1, 1 <= r <= 7, the value returned is the
\* brute-force sum over all size elements.
C3_TailCounted ==
  (Returned /\ HasTail) => result = BruteForce(vec1, vec2, size)

\* C4: the value returned is the sum, over the indices visited, of the squared
\* decoded difference at that index, each counted once.
C4_SumOverVisited ==
  Returned => result = SumBelow(vec1, vec2, Visited, size)

\* C5: for size 0 neither loop body runs, no byte is read, and 0 is returned.
C5_EmptyInput ==
  size = 0 =>
    /\ iters = 0
    /\ reads = {}
    /\ pc # "fault"
    /\ Returned => result = Zero

\* C6: a buffer compared against itself returns 0, for every element count.
C6_Identity ==
  alias => (pc # "fault" /\ (Returned => result = Zero))

\* C7: exchanging the two buffers does not change the value returned.
C7_Symmetry ==
  (Returned /\ call = 2) => result = first

\* the steps left in a call, at most: it falls with every step of the call
Rank == IF Returned THEN 0 ELSE 2 * (size - i) + 4 + (IF pc = "vec" THEN 1 ELSE 0)

RemReads == {r \in reads : r.ph = "rem"}

\* C8: for a size of at least 8 the call returns (the vectorized loop runs
\* floor(size / 8) times, the remainder loop at most size mod 8 times, and
\* every step brings the return nearer), and every byte read from either
\* buffer, in either loop, lies at an offset in [0, 2 * size).
C8_TerminatesInBounds ==
  /\ [](size >= GroupWidth =>
          /\ pc # "fault"
          /\ \A r \in reads : InBuffer(r.offs)
          /\ iters <= size \div GroupWidth
          /\ (pc = "vec" /\ LoopCond(i, size)) => iters < size \div GroupWidth
          /\ pc \in {"rem", "done"} => iters = size \div GroupWidth
          /\ Cardinality(RemReads) <= size % GroupWidth
          /\ Rank >= 0)
  /\ [][(size >= GroupWidth /\ ~Returned) => Rank' < Rank]_vars

C8_Witness ==
  /\ Returned
  /\ HasTail
  /\ iters = size \div GroupWidth
  /\ \E r \in reads : r.ph = "rem" /\ (size - 1) \in r.offs
  /\ \E r \in reads : r.ph = "vec" /\ (2 * GroupWidth * iters - 1) \in r.offs

\* C9: the remainder loop decodes element i from the bytes at offsets 2i and
\* 2i + 1, the pair the vectorized loop loads for that element.
C9_RemainderBytes ==
  \A r \in reads : r.ph = "rem" => r.offs = LaneBytes(2 * r.idx, 0)

\* C10: for a size below 8 the bound size - 8 wraps to 2^w - (8 - size), so the
\* vectorized loop is entered at i = 0, loads 16 bytes from buffers of fewer
\* than 16, and goes on for indices at and past size: it is never left.
C10_Underflow ==
  size < GroupWidth =>
    /\ (size - GroupWidth) % WordMod = WordMod - (GroupWidth - size)
    /\ pc \in {"vec", "fault"}
    /\ pc = "vec" => LoopCond(i, size)
    /\ iters > 0 =>
         /\ \A o \in 0..15 : \E r \in reads : o \in r.offs
         /\ \E r \in reads : OutOfBounds(vec1, r.offs) /\ OutOfBounds(vec2, r.offs)

C10_Witness ==
  /\ size < GroupWidth
  /\ pc = "vec"
  /\ iters >= 2
  /\ i >= size
  /\ \E r \in reads : r.idx >= size
====
